---- MODULE Spec2Model ----
(***************************************************************************)
(* Prowling: interactive terminal client for a Prowlarr indexer            *)
(* aggregator.  The model follows ProwlingClient of src/unnamed/part_000   *)
(* (the current index.js; src/index.js is its predecessor without the main *)
(* menu and the settings).  The controller is a single async function that *)
(* suspends at prompts and HTTP calls; pc names the await point it is      *)
(* suspended at.  The SIGINT handler runs between any two such steps.      *)
(*                                                                         *)
(* Spec is the program from its start, with short result sequences.        *)
(* ResultsSpec is one results session with longer result sequences.        *)
(* SettingsSpec is the settings menu of a session, with the connection     *)
(* settings, and the processes started after it.                           *)
(***************************************************************************)
EXTENDS Integers, Sequences, FiniteSets, TLC

(***************************************************************************)
(* Bounds of the model.                                                    *)
(***************************************************************************)
MaxResults == 1      \* longest gateway response in Spec
MaxSortLen == 3      \* longest result sequence in ResultsSpec
MaxStack == 2        \* item selections allowed while the stack has this depth

(***************************************************************************)
(* Strings the code inspects character by character (titles, filter terms, *)
(* queries) are sequences of one-character strings.                        *)
(***************************************************************************)

\* String.prototype.toLowerCase on one character (ASCII letters of the model)
ToLowerChar(c) ==
    CASE c = "A" -> "a"
      [] c = "B" -> "b"
      [] c = "C" -> "c"
      [] c = "E" -> "e"
      [] c = "I" -> "i"
      [] c = "K" -> "k"
      [] c = "T" -> "t"
      [] c = "X" -> "x"
      [] OTHER -> c

\* String.prototype.toLowerCase
ToLowerCase(s) == [i \in 1..Len(s) |-> ToLowerChar(s[i])]

\* String.prototype.includes: sub occurs in s as a contiguous run
Includes(s, sub) ==
    \E i \in 0..(Len(s) - Len(sub)) : SubSeq(s, i + 1, i + Len(sub)) = sub

\* String.prototype.trim: strip white space at both ends
RECURSIVE Trim(_)
Trim(s) ==
    IF s = <<>> THEN s
    ELSE IF Head(s) = " " THEN Trim(Tail(s))
    ELSE IF s[Len(s)] = " " THEN Trim(SubSeq(s, 1, Len(s) - 1))
    ELSE s

\* sign of an integer
Sign(n) == IF n < 0 THEN -1 ELSE IF n > 0 THEN 1 ELSE 0

\* collation weights of String.prototype.localeCompare (root collation):
\* the primary weight orders space before letters and letters
\* alphabetically whatever their case, the tertiary weight orders a lower
\* case letter before its upper case form.
PrimaryWeight(c) ==
    CASE c = " " -> 0
      [] ToLowerChar(c) = "a" -> 1
      [] ToLowerChar(c) = "b" -> 2
      [] OTHER -> 3

TertiaryWeight(c) == IF ToLowerChar(c) = c THEN 0 ELSE 1

\* lexicographic comparison of two sequences of weights
RECURSIVE LexCompare(_, _)
LexCompare(u, v) ==
    IF u = <<>> /\ v = <<>> THEN 0
    ELSE IF u = <<>> THEN -1
    ELSE IF v = <<>> THEN 1
    ELSE IF Head(u) # Head(v) THEN Sign(Head(u) - Head(v))
    ELSE LexCompare(Tail(u), Tail(v))

\* a.localeCompare(b)
LocaleCompare(a, b) ==
    LET pa == [i \in 1..Len(a) |-> PrimaryWeight(a[i])]
        pb == [i \in 1..Len(b) |-> PrimaryWeight(b[i])]
        ta == [i \in 1..Len(a) |-> TertiaryWeight(a[i])]
        tb == [i \in 1..Len(b) |-> TertiaryWeight(b[i])]
        p  == LexCompare(pa, pb)
    IN  IF p # 0 THEN p ELSE LexCompare(ta, tb)

(***************************************************************************)
(* Search results.  A nullable number is <<>> (null or absent) or <<n>>;   *)
(* an absent string is "".  publishDate is the string the gateway sent.    *)
(***************************************************************************)
protocols == [torrent |-> "torrent", usenet |-> "usenet"]

Result(title, indexer, size, seeders, protocol, publishDate, downloadUrl, magnetUrl) ==
    [title |-> title, indexer |-> indexer, size |-> size, seeders |-> seeders,
     protocol |-> protocol, publishDate |-> publishDate,
     downloadUrl |-> downloadUrl, magnetUrl |-> magnetUrl]

R1 == Result(<<"A", "b">>, "ix1", <<2>>, <<5>>, "torrent", "2024-02-01", "http://dl/1", "magnet:1")
R2 == Result(<<"B", " ", "a">>, "ix2", <<>>, <<>>, "usenet", "", "http://dl/2", "")
R3 == Result(<<"A", "b">>, "ix3", <<1>>, <<20>>, "torrent", "not a date", "", "magnet:3")
R4 == Result(<<"a", "B">>, "ix1", <<2>>, <<0>>, "torrent", "2024-01-01", "http://dl/4", "")

\* results the gateway can return in Spec, and in ResultsSpec
GatewayCatalog == {R1, R2}
Catalog == {R1, R2, R3, R4}

\* the sequences without repetition over S of length at most n
InjectiveSeqs(S, n) ==
    UNION {{f \in [1..k -> S] : \A i, j \in 1..k : i # j => f[i] # f[j]} : k \in 0..n}

\* indexer lists GET /api/v1/indexer can return
Indexer(id, name, priority) == [id |-> id, name |-> name, priority |-> priority]
IndexerLists == {<<>>, <<Indexer(1, "ix1", 25), Indexer(2, "ix2", 1)>>}

\* faulty variant of x || 0: a missing number counts as less than any other
NullAsLowest(x) == IF x = <<>> THEN -1 ELSE x[1]

\* x || 0 for a nullable number
OrZero(x) == IF x = <<>> THEN 0 ELSE x[1]

\* new Date(publishDate || 0): a time value, or NaN for an unparseable string
NewDate(publishDate) ==
    CASE publishDate = "" -> [nan |-> FALSE, t |-> 0]
      [] publishDate = "2024-01-01" -> [nan |-> FALSE, t |-> 1]
      [] publishDate = "2024-02-01" -> [nan |-> FALSE, t |-> 2]
      [] OTHER -> [nan |-> TRUE, t |-> 0]

\* subtraction of two Date objects: NaN when either is an Invalid Date
DateMinus(d, e) ==
    IF d.nan \/ e.nan THEN [nan |-> TRUE, v |-> 0] ELSE [nan |-> FALSE, v |-> d.t - e.t]

Num(n) == [nan |-> FALSE, v |-> n]

\* this.indexers.find(i => i.name === name)?.priority || 0
PriorityOf(indexers, name) ==
    IF \E i \in 1..Len(indexers) : indexers[i].name = name
    THEN indexers[CHOOSE i \in 1..Len(indexers) :
                     /\ indexers[i].name = name
                     /\ \A j \in 1..(i - 1) : indexers[j].name # name].priority
    ELSE 0

SortKeys == {"title_asc", "title_desc", "seeders_desc", "seeders_asc", "size_desc",
             "size_asc", "date_desc", "date_asc", "protocol",
             "indexer_priority_desc", "indexer_priority_asc"}

\* faulty variant of the comparator: seeders_desc written as a two-way
\* test that never answers 0
ComparatorWithoutTies(sortBy, indexers, a, b) ==
    CASE sortBy = "title_asc" -> Num(LocaleCompare(a.title, b.title))
      [] sortBy = "title_desc" -> Num(LocaleCompare(b.title, a.title))
      [] sortBy = "seeders_desc" ->
            IF OrZero(b.seeders) > OrZero(a.seeders) THEN Num(1) ELSE Num(-1)
      [] sortBy = "seeders_asc" -> Num(OrZero(a.seeders) - OrZero(b.seeders))
      [] sortBy = "size_desc" -> Num(OrZero(b.size) - OrZero(a.size))
      [] sortBy = "size_asc" -> Num(OrZero(a.size) - OrZero(b.size))
      [] sortBy = "date_desc" -> DateMinus(NewDate(b.publishDate), NewDate(a.publishDate))
      [] sortBy = "date_asc" -> DateMinus(NewDate(a.publishDate), NewDate(b.publishDate))
      [] OTHER -> Num(0)

\* the comparator handed to sort: a number, or NaN
Comparator(sortBy, indexers, a, b) ==
    CASE sortBy = "title_asc" -> Num(LocaleCompare(a.title, b.title))
      [] sortBy = "title_desc" -> Num(LocaleCompare(b.title, a.title))
      [] sortBy = "seeders_desc" -> Num(OrZero(b.seeders) - OrZero(a.seeders))
      [] sortBy = "seeders_asc" -> Num(OrZero(a.seeders) - OrZero(b.seeders))
      [] sortBy = "size_desc" -> Num(OrZero(b.size) - OrZero(a.size))
      [] sortBy = "size_asc" -> Num(OrZero(a.size) - OrZero(b.size))
      [] sortBy = "date_desc" -> DateMinus(NewDate(b.publishDate), NewDate(a.publishDate))
      [] sortBy = "date_asc" -> DateMinus(NewDate(a.publishDate), NewDate(b.publishDate))
      [] sortBy = "protocol" ->
            IF a.protocol = protocols.usenet /\ b.protocol # protocols.usenet THEN Num(-1)
            ELSE IF a.protocol # protocols.usenet /\ b.protocol = protocols.usenet THEN Num(1)
            ELSE Num(0)
      [] sortBy = "indexer_priority_desc" ->
            Num(PriorityOf(indexers, b.indexer) - PriorityOf(indexers, a.indexer))
      [] sortBy = "indexer_priority_asc" ->
            Num(PriorityOf(indexers, a.indexer) - PriorityOf(indexers, b.indexer))
      [] OTHER -> Num(0)

\* the comparison Array.prototype.sort makes: a NaN from the comparator is +0
SortCompare(sortBy, indexers, a, b) ==
    LET v == Comparator(sortBy, indexers, a, b) IN IF v.nan THEN 0 ELSE v.v

\* the sequence s reversed
Reverse(s) == [i \in 1..Len(s) |-> s[Len(s) + 1 - i]]

\* length of the run the array starts with: strictly descending when the
\* second element is below the first, non-descending otherwise
RunLength(sortBy, indexers, s) ==
    LET desc == SortCompare(sortBy, indexers, s[2], s[1]) < 0
        Goes(idx) == IF desc THEN SortCompare(sortBy, indexers, s[idx], s[idx - 1]) < 0
                     ELSE SortCompare(sortBy, indexers, s[idx], s[idx - 1]) >= 0
    IN  CHOOSE k \in 2..Len(s) :
            /\ \A idx \in 3..k : Goes(idx)
            /\ k < Len(s) => ~Goes(k + 1)

\* binary search for the place of pivot in the sorted prefix s[1..right]:
\* the number of elements that stay before it
RECURSIVE InsertionPoint(_, _, _, _, _, _)
InsertionPoint(sortBy, indexers, s, pivot, left, right) ==
    IF left >= right THEN left
    ELSE LET mid == left + ((right - left) \div 2)
         IN  IF SortCompare(sortBy, indexers, pivot, s[mid + 1]) < 0
             THEN InsertionPoint(sortBy, indexers, s, pivot, left, mid)
             ELSE InsertionPoint(sortBy, indexers, s, pivot, mid + 1, right)

\* binary insertion of s[start+1], s[start+2], ... into the sorted prefix
RECURSIVE BinaryInsertionSort(_, _, _, _)
BinaryInsertionSort(sortBy, indexers, s, start) ==
    IF start >= Len(s) THEN s
    ELSE LET pivot == s[start + 1]
             left == InsertionPoint(sortBy, indexers, s, pivot, 0, start)
             t == SubSeq(s, 1, left) \o <<pivot>> \o SubSeq(s, left + 1, start)
                    \o SubSeq(s, start + 2, Len(s))
         IN  BinaryInsertionSort(sortBy, indexers, t, start + 1)

\* [...s].sort(comparator) as Node runs it on an array shorter than 64:
\* the leading run is found (and reversed when descending), the remaining
\* elements are inserted by binary search.  The result is the stable order
\* whenever the comparator is consistent.
ArraySort(sortBy, indexers, s) ==
    IF Len(s) < 2 THEN s
    ELSE LET desc == SortCompare(sortBy, indexers, s[2], s[1]) < 0
             n == RunLength(sortBy, indexers, s)
             t == IF desc THEN Reverse(SubSeq(s, 1, n)) \o SubSeq(s, n + 1, Len(s)) ELSE s
         IN  BinaryInsertionSort(sortBy, indexers, t, n)

\* faulty variant of the filter: the title is not lower-cased
FilterResultsCaseSensitive(results, searchTerm) ==
    SelectSeq(results, LAMBDA result : Includes(result.title, searchTerm))

\* results.filter(result => result.title.toLowerCase().includes(searchTerm))
FilterResults(results, searchTerm) ==
    SelectSeq(results, LAMBDA result : Includes(ToLowerCase(result.title), searchTerm))

(***************************************************************************)
(* Theme, settings and the config file.  Of the 7 theme roles and the 18   *)
(* settings keys the model keeps the ones named here; the others are read  *)
(* and written by the same code in the same way.  The config file is       *)
(* absent, not parseable, or a JSON object; a key the object lacks is ""   *)
(* for a string and <<>> for theme and settings.                           *)
(***************************************************************************)
DefaultTheme == [primary |-> "cyan", highlight |-> "magenta"]

DefaultSettings == [defaultSortOrder |-> "seeders_desc", showAdultContent |-> TRUE]

ConfigData(serverUrl, apiKey, qbittorrentUrl, theme, settings) ==
    [serverUrl |-> serverUrl, apiKey |-> apiKey, qbittorrentUrl |-> qbittorrentUrl,
     theme |-> theme, settings |-> settings]

NoData == ConfigData("", "", "", <<>>, <<>>)

AbsentFile == [kind |-> "absent", data |-> NoData]
CorruptFile == [kind |-> "corrupt", data |-> NoData]
JsonFile(data) == [kind |-> "json", data |-> data]

\* the colours chalk has a style for, as customizeTheme lists them
ChalkColors == {"black", "red", "green", "yellow", "blue", "magenta", "cyan", "white", "gray"}

\* config files a session can start with: none, a damaged one, one written
\* by an earlier session whose theme had no highlight role yet, and one
\* edited by hand whose highlight colour chalk has no style for
InitialConfigFiles ==
    {AbsentFile, CorruptFile,
     JsonFile(ConfigData("http://prowlarr", "key", "http://qbt",
                         <<[primary |-> "red"]>>,
                         <<[defaultSortOrder |-> "title_asc", showAdultContent |-> FALSE]>>)),
     JsonFile(ConfigData("http://prowlarr", "key", "",
                         <<[highlight |-> "orange"]>>, <<>>))}

ServerUrlInputs == {"http://prowlarr"}
ApiKeyInputs == {"key"}
QbittorrentUrlInputs == {"", "http://qbt"}
SortOrderInputs == {"seeders_desc", "title_asc"}

\* answers to the text prompts of the search loop
Queries == {<<"a">>, <<>>, <<"B", "a", "c", "k">>, <<"e", "x", "i", "t">>}
FilterTerms == {<<>>, <<" ">>, <<"a", "b">>, <<"B", " ">>, <<"a">>, <<"b", "b">>}

\* HTTP status of a failed request; 0 stands for a failure without response
FailureStatuses == {400, 500, 0}

(***************************************************************************)
(* The filter terms of a results session, for the history of the filter   *)
(* prompt.                                                                 *)
(***************************************************************************)
\* title contains term when the case of letters is ignored
ContainsIgnoringCase(title, term) ==
    \E i \in 0..(Len(title) - Len(term)) :
        \A k \in 1..Len(term) : ToLowerChar(title[i + k]) = ToLowerChar(term[k])

\* the subsequence of full, in its order, of the results whose title
\* contains term ignoring case
MatchSet(full, term) ==
    SelectSeq(full, LAMBDA result : ContainsIgnoringCase(result.title, term))

\* a term that is empty or all white space
IsBlank(term) == \A i \in 1..Len(term) : term[i] = " "

\* no filter term had matches yet
NoTerm == [any |-> <<>>, nonBlank |-> <<>>]

VARIABLES
    pc,                \* the await point the controller is suspended at
    exitStatus,        \* <<>> while the process runs, <<code>> once it has exited
    currentMenuLevel,  \* this.currentMenuLevel
    baseUrl,           \* this.baseUrl
    apiKeyHeader,      \* axios.defaults.headers.common['X-Api-Key']
    qbittorrentUrl,    \* this.qbittorrentUrl
    indexers,          \* this.indexers
    theme,             \* this.theme
    settings,          \* this.settings
    configFile,        \* the file at this.configPath
    saveFailed,        \* history: saveConfig has reported "Failed to save configuration"
    savedConfig,       \* initialize: savedConfig, serverUrl, apiKey (until they are used)
    navigationStack,   \* startSearchLoop: navigationStack (data of each entry)
    category,          \* startSearchLoop: category (until the request is answered)
    query,             \* startSearchLoop: query (until the request is answered)
    results,           \* startSearchLoop: results
    currentResults,    \* startSearchLoop: currentResults
    isFiltered,        \* startSearchLoop: isFiltered
    matchedTerm,       \* history: the filter terms of the session that had matches
    selected,          \* startSearchLoop: selected, <<>> unless an item
    settingName,       \* customizeSearchPreferences: searchSetting
    lastError,         \* HTTP status of the error being reported, <<>> if none
    lastEvent          \* the input the last step consumed

vars == <<pc, exitStatus, currentMenuLevel, baseUrl, apiKeyHeader, qbittorrentUrl,
          indexers, theme, settings, configFile, saveFailed, savedConfig, navigationStack,
          category, query, results, currentResults, isFiltered, matchedTerm, selected,
          settingName, lastError, lastEvent>>

sessionVars == <<baseUrl, apiKeyHeader, qbittorrentUrl, indexers, theme, settings>>
searchVars == <<category, query, results, currentResults, isFiltered, matchedTerm, selected>>

Event(source, value) == [source |-> source, value |-> value]

\* constructor, then the config file the session finds
Init ==
    /\ pc = "start"
    /\ exitStatus = <<>>
    /\ currentMenuLevel = "main"
    /\ baseUrl = ""
    /\ apiKeyHeader = ""
    /\ qbittorrentUrl = ""
    /\ indexers = <<>>
    /\ theme = DefaultTheme
    /\ settings = DefaultSettings
    /\ configFile \in InitialConfigFiles
    /\ saveFailed = FALSE
    /\ savedConfig = NoData
    /\ navigationStack = <<>>
    /\ category = ""
    /\ query = <<>>
    /\ results = <<>>
    /\ currentResults = <<>>
    /\ isFiltered = FALSE
    /\ matchedTerm = NoTerm
    /\ selected = <<>>
    /\ settingName = ""
    /\ lastError = <<>>
    /\ lastEvent = Event("none", "")

\* process.exit(code): the process ends where it is
Exit(code) ==
    /\ exitStatus' = <<code>>
    /\ UNCHANGED pc

\* the controller is suspended at await point p of a running process
At(p) == pc = p /\ exitStatus = <<>>

\* history of the filter prompt: the most recent term entered there that a
\* title of the results contains, and the most recent such term that is not
\* blank
TermEntered(term) ==
    matchedTerm' =
       IF MatchSet(results, term) = <<>> THEN matchedTerm
       ELSE [any |-> <<term>>,
             nonBlank |-> IF IsBlank(term) THEN matchedTerm.nonBlank ELSE <<term>>]

\* { ...a, ...b } for an optional b: the keys of b override those of a
Merge(a, b) ==
    IF b = <<>> THEN a
    ELSE [k \in DOMAIN a \cup DOMAIN b[1] |-> IF k \in DOMAIN b[1] THEN b[1][k] ELSE a[k]]

\* faulty variant of loadConfig: without a readable file only the empty
\* server URL and API key are returned, as in the predecessor
LoadConfigResultWithoutDefaults(file, th, st) ==
    IF file.kind = "json" THEN file.data
    ELSE NoData

\* loadConfig: the object it returns
LoadConfigResult(file, th, st) ==
    IF file.kind = "json" THEN file.data
    ELSE ConfigData("", "", "", <<th>>, <<st>>)

\* faulty variant of saveConfig: only server URL and API key are written, as
\* in the predecessor
SaveConfigWithoutSettings(ok, serverUrl, apiKey, qbUrl, th, st) ==
    /\ configFile' = IF ok THEN JsonFile(ConfigData(serverUrl, apiKey, "", <<>>, <<>>))
                     ELSE configFile
    /\ saveFailed' = (saveFailed \/ ~ok)

\* saveConfig: the file after the call; the write succeeds or throws, and a
\* failure is caught and leaves the file as it was.  The object written has
\* all five keys, and theme and settings hold strings, booleans and finite
\* numbers only, which JSON.parse gives back as they were.
SaveConfig(ok, serverUrl, apiKey, qbUrl, th, st) ==
    /\ configFile' = IF ok THEN JsonFile(ConfigData(serverUrl, apiKey, qbUrl, <<th>>, <<st>>))
                     ELSE configFile
    /\ saveFailed' = (saveFailed \/ ~ok)

\* initialize, from the prompts on: save the config, set up the session and
\* issue the status request
Connect(cfg, ok, th, st) ==
    /\ SaveConfig(ok, cfg.serverUrl, cfg.apiKey, cfg.qbittorrentUrl, th, st)
    /\ baseUrl' = cfg.serverUrl
    /\ qbittorrentUrl' = cfg.qbittorrentUrl
    /\ apiKeyHeader' = cfg.apiKey
    /\ savedConfig' = NoData
    /\ pc' = "status_request"

\* initialize: loadConfig and what follows up to the first await
LoadConfig ==
    /\ At("start")
    /\ LET th == IF configFile.kind = "json" THEN Merge(theme, configFile.data.theme) ELSE theme
           st == IF configFile.kind = "json" THEN Merge(settings, configFile.data.settings)
                 ELSE settings
           cfg == LoadConfigResult(configFile, th, st)
       IN  /\ theme' = th
           /\ settings' = st
           /\ lastEvent' = Event("start", "")
           /\ IF cfg.serverUrl = "" THEN
                 /\ pc' = "server_url_prompt"
                 /\ savedConfig' = cfg
                 /\ UNCHANGED <<baseUrl, apiKeyHeader, qbittorrentUrl, configFile, saveFailed>>
              ELSE IF cfg.apiKey = "" THEN
                 /\ pc' = "api_key_prompt"
                 /\ savedConfig' = cfg
                 /\ UNCHANGED <<baseUrl, apiKeyHeader, qbittorrentUrl, configFile, saveFailed>>
              ELSE \E ok \in BOOLEAN : Connect(cfg, ok, th, st)
    /\ UNCHANGED <<exitStatus, currentMenuLevel, indexers, navigationStack, searchVars,
                   settingName, lastError>>

\* initialize: the server URL is entered
EnterServerUrl ==
    /\ At("server_url_prompt")
    /\ \E url \in ServerUrlInputs :
         LET cfg == [savedConfig EXCEPT !.serverUrl = url]
         IN  /\ lastEvent' = Event("server_url_prompt", url)
             /\ IF cfg.apiKey = "" THEN
                   /\ pc' = "api_key_prompt"
                   /\ savedConfig' = cfg
                   /\ UNCHANGED <<baseUrl, apiKeyHeader, qbittorrentUrl, configFile, saveFailed>>
                ELSE \E ok \in BOOLEAN : Connect(cfg, ok, theme, settings)
    /\ UNCHANGED <<exitStatus, currentMenuLevel, indexers, theme, settings, navigationStack,
                   searchVars, settingName, lastError>>

\* initialize: the API key is entered
EnterApiKey ==
    /\ At("api_key_prompt")
    /\ \E key \in ApiKeyInputs, ok \in BOOLEAN :
         LET cfg == [savedConfig EXCEPT !.apiKey = key]
         IN  /\ lastEvent' = Event("api_key_prompt", key)
             /\ Connect(cfg, ok, theme, settings)
    /\ UNCHANGED <<exitStatus, currentMenuLevel, indexers, theme, settings, navigationStack,
                   searchVars, settingName, lastError>>

\* startSearchLoop: the head of the menu loop, where the locals of the
\* previous search are out of scope
ToMainMenu ==
    /\ pc' = "main_menu"
    /\ currentMenuLevel' = "main"
    /\ category' = ""
    /\ query' = <<>>
    /\ results' = <<>>
    /\ currentResults' = <<>>
    /\ isFiltered' = FALSE
    /\ matchedTerm' = NoTerm
    /\ selected' = <<>>

\* faulty variant of the connection check: a failed status request is
\* reported and the indexers are requested all the same
StatusResponseIgnoringFailure ==
    /\ At("status_request")
    /\ \E ok \in BOOLEAN :
         lastEvent' = Event("status_request", IF ok THEN "ok" ELSE "error")
    /\ pc' = "indexer_request"
    /\ UNCHANGED <<exitStatus, currentMenuLevel, sessionVars, configFile, saveFailed, savedConfig,
                   navigationStack, searchVars, settingName, lastError>>

\* initialize: GET /api/v1/system/status answers
StatusResponse ==
    /\ At("status_request")
    /\ \E ok \in BOOLEAN :
         /\ lastEvent' = Event("status_request", IF ok THEN "ok" ELSE "error")
         /\ IF ok THEN pc' = "indexer_request" /\ UNCHANGED exitStatus
            ELSE Exit(1)
    /\ UNCHANGED <<currentMenuLevel, sessionVars, configFile, saveFailed, savedConfig,
                   navigationStack,
                   searchVars, settingName, lastError>>

\* chalk[color] is a function for the colours chalk has a style for and
\* undefined for any other name: calling it throws a TypeError
ChalkThrows(color) == color \notin ChalkColors

\* startSearchLoop up to its first await: the banner is printed in the
\* primary colour and the main menu prompt is built with the highlight
\* colour; an error thrown here is not inside the try of the loop body
StartSearchLoopThrows(th) == ChalkThrows(th.primary) \/ ChalkThrows(th.highlight)

\* initialize: GET /api/v1/indexer answers; startSearchLoop begins, inside
\* the try of initialize, whose catch reports "Failed to connect" and ends
\* the process with status 1
IndexerResponse ==
    /\ At("indexer_request")
    /\ \/ \E list \in IndexerLists :
            /\ indexers' = list
            /\ lastEvent' = Event("indexer_request", "ok")
            /\ IF StartSearchLoopThrows(theme)
               THEN Exit(1) /\ UNCHANGED <<currentMenuLevel, searchVars>>
               ELSE ToMainMenu /\ UNCHANGED exitStatus
       \/ /\ lastEvent' = Event("indexer_request", "error")
          /\ Exit(1)
          /\ UNCHANGED <<currentMenuLevel, indexers, searchVars>>
    /\ UNCHANGED <<baseUrl, apiKeyHeader, qbittorrentUrl, theme, settings, configFile, saveFailed,
                   savedConfig, navigationStack, settingName, lastError>>

\* the main menu prompt is answered
MainMenu ==
    /\ At("main_menu")
    /\ \E action \in {"search", "settings", "exit"} :
         /\ lastEvent' = Event("main_menu", action)
         /\ CASE action = "exit" -> Exit(0) /\ UNCHANGED currentMenuLevel
              [] action = "settings" ->
                    /\ currentMenuLevel' = "settings"
                    /\ pc' = "settings_menu"
                    /\ UNCHANGED exitStatus
              [] OTHER ->
                    /\ pc' = "category_select"
                    /\ UNCHANGED <<exitStatus, currentMenuLevel>>
    /\ UNCHANGED <<sessionVars, configFile, saveFailed, savedConfig, navigationStack, searchVars,
                   settingName, lastError>>

\* the choices of the category prompt
CategoryChoices ==
    {"movies", "tv", "all", "back"} \cup (IF settings.showAdultContent THEN {"adult"} ELSE {})

\* the category prompt is answered
CategorySelect ==
    /\ At("category_select")
    /\ \E c \in CategoryChoices :
         /\ lastEvent' = Event("category_select", c)
         /\ IF c = "back" THEN ToMainMenu /\ UNCHANGED exitStatus
            ELSE IF c = "exit" THEN Exit(0) /\ UNCHANGED <<currentMenuLevel, searchVars>>
            ELSE /\ pc' = "query_input"
                 /\ category' = c
                 /\ UNCHANGED <<exitStatus, currentMenuLevel, query, results, currentResults,
                                isFiltered, matchedTerm, selected>>
    /\ UNCHANGED <<sessionVars, configFile, saveFailed, savedConfig, navigationStack, settingName,
                   lastError>>

\* faulty variant of the test of the query: the case of letters counts
SameWord(q, word) == q = word

\* query.toLowerCase() === word
IsWord(q, word) == ToLowerCase(q) = word

\* the query prompt is answered; any query but back and exit is searched for
QueryInput ==
    /\ At("query_input")
    /\ \E q \in Queries :
         /\ lastEvent' = Event("query_input", q)
         /\ IF IsWord(q, <<"b", "a", "c", "k">>) THEN ToMainMenu /\ UNCHANGED exitStatus
            ELSE IF IsWord(q, <<"e", "x", "i", "t">>)
                 THEN Exit(0) /\ UNCHANGED <<currentMenuLevel, searchVars>>
            ELSE /\ pc' = "search_request"
                 /\ query' = q
                 /\ UNCHANGED <<exitStatus, currentMenuLevel, category, results, currentResults,
                                isFiltered, matchedTerm, selected>>
    /\ UNCHANGED <<sessionVars, configFile, saveFailed, savedConfig, navigationStack, settingName,
                   lastError>>

\* faulty variant of the catch: the error is not caught in the loop and
\* reaches the catch of initialize
SearchErrorUncaught(status) ==
    /\ lastError' = <<status>>
    /\ Exit(1)

\* the catch of the loop body: the error is reported and "Press Enter to
\* go back..." is awaited
SearchError(status) ==
    /\ lastError' = <<status>>
    /\ pc' = "search_error_ack"
    /\ UNCHANGED exitStatus

\* faulty variant of the test for an empty answer: an empty result list is
\* shown like any other
NoResultsIgnored(r) == FALSE

\* results.length === 0: "No results found"
NoResults(r) == Len(r) = 0

\* faulty variant of the first display: the results are shown in the
\* order of the defaultSortOrder setting
InitialDisplaySorted(r, st, indexerList) == ArraySort(st.defaultSortOrder, indexerList, r)

\* let currentResults = results: the first display is the gateway's answer
InitialDisplay(r, st, indexerList) == r

\* GET /api/v1/search answers with a list of at most maxLen results of the
\* catalog, or with an error that the catch of the loop body handles
SearchResponseFrom(catalog, maxLen) ==
    /\ At("search_request")
    /\ \/ \E r \in InjectiveSeqs(catalog, maxLen) :
            /\ lastEvent' = Event("search_request", "ok")
            /\ IF NoResults(r) THEN ToMainMenu
               ELSE /\ pc' = "results_list"
                    /\ results' = r
                    /\ currentResults' = InitialDisplay(r, settings, indexers)
                    /\ isFiltered' = FALSE
                    /\ matchedTerm' = NoTerm
                    /\ category' = ""
                    /\ query' = <<>>
                    /\ UNCHANGED <<currentMenuLevel, selected>>
            /\ UNCHANGED <<exitStatus, lastError>>
       \/ \E status \in FailureStatuses :
            /\ lastEvent' = Event("search_request", "error")
            /\ SearchError(status)
            /\ category' = ""
            /\ query' = <<>>
            /\ UNCHANGED <<currentMenuLevel, results, currentResults, isFiltered, matchedTerm, selected>>
    /\ UNCHANGED <<sessionVars, configFile, saveFailed, savedConfig, navigationStack, settingName>>

\* the search of the whole program: the gateway's catalog is small
SearchResponse == SearchResponseFrom(GatewayCatalog, MaxResults)

\* Enter at "Press Enter to go back..." after a failed search: the loop
\* body ends and the menu loop starts over
SearchErrorAck ==
    /\ At("search_error_ack")
    /\ lastEvent' = Event("search_error_ack", "")
    /\ lastError' = <<>>
    /\ ToMainMenu
    /\ UNCHANGED <<exitStatus, sessionVars, configFile, saveFailed, savedConfig, navigationStack,
                   settingName>>

(***************************************************************************)
(* The results loop of startSearchLoop.                                    *)
(***************************************************************************)
frame == <<exitStatus, sessionVars, configFile, saveFailed, savedConfig, settingName, lastError>>

\* results prompt: "Sort results"
ChooseSortResults ==
    /\ At("results_list")
    /\ lastEvent' = Event("results_list", "sort_results")
    /\ pc' = "sort_prompt"
    /\ UNCHANGED <<frame, currentMenuLevel, navigationStack, searchVars>>

\* faulty variant of the sort: the displayed array is sorted in place, and
\* it is the array results names as long as no filter has replaced it
SortResultsInPlace ==
    /\ At("sort_prompt")
    /\ \E sortBy \in SortKeys :
         /\ lastEvent' = Event("sort_prompt", sortBy)
         /\ currentResults' = ArraySort(sortBy, indexers, currentResults)
    /\ results' = IF isFiltered THEN results ELSE currentResults'
    /\ pc' = "results_list"
    /\ UNCHANGED <<frame, currentMenuLevel, navigationStack, category, query, isFiltered, matchedTerm,
                   selected>>

\* sort prompt: a copy of the displayed sequence is sorted by the key
SortResults ==
    /\ At("sort_prompt")
    /\ \E sortBy \in SortKeys :
         /\ lastEvent' = Event("sort_prompt", sortBy)
         /\ currentResults' = ArraySort(sortBy, indexers, currentResults)
    /\ pc' = "results_list"
    /\ UNCHANGED <<frame, currentMenuLevel, navigationStack, category, query, results,
                   isFiltered, matchedTerm, selected>>

\* results prompt: "Search within results"
ChooseSearchResults ==
    /\ At("results_list")
    /\ lastEvent' = Event("results_list", "search_results")
    /\ pc' = "filter_prompt"
    /\ UNCHANGED <<frame, currentMenuLevel, navigationStack, searchVars>>

\* faulty variant of the filter step: an empty match set is displayed like
\* any other
SearchResultsWithoutEmptyCheck ==
    /\ At("filter_prompt")
    /\ \E searchQuery \in FilterTerms :
         /\ lastEvent' = Event("filter_prompt", searchQuery)
         /\ TermEntered(searchQuery)
         /\ IF Trim(searchQuery) # <<>> THEN
               /\ pc' = "results_list"
               /\ currentResults' = FilterResults(results, ToLowerCase(searchQuery))
               /\ isFiltered' = TRUE
            ELSE
               /\ pc' = "results_list"
               /\ UNCHANGED <<currentResults, isFiltered>>
    /\ UNCHANGED <<frame, currentMenuLevel, navigationStack, category, query, results, selected>>

\* filter prompt: a term that is not blank filters the full result
\* sequence; matches become the displayed sequence, no match is reported.
\* filteredResults is read only in the statements that follow its
\* assignment: it is the local matches here.
SearchResults ==
    /\ At("filter_prompt")
    /\ \E searchQuery \in FilterTerms :
         /\ lastEvent' = Event("filter_prompt", searchQuery)
         /\ TermEntered(searchQuery)
         /\ IF Trim(searchQuery) # <<>> THEN
               LET matches == FilterResults(results, ToLowerCase(searchQuery))
               IN  IF Len(matches) = 0 THEN
                      /\ pc' = "no_match_ack"
                      /\ UNCHANGED <<currentResults, isFiltered>>
                   ELSE
                      /\ pc' = "results_list"
                      /\ currentResults' = matches
                      /\ isFiltered' = TRUE
            ELSE
               /\ pc' = "results_list"
               /\ UNCHANGED <<currentResults, isFiltered>>
    /\ UNCHANGED <<frame, currentMenuLevel, navigationStack, category, query, results, selected>>

\* Enter at "Press Enter to go back..." after a filter without match
NoMatchAck ==
    /\ At("no_match_ack")
    /\ lastEvent' = Event("no_match_ack", "")
    /\ pc' = "results_list"
    /\ UNCHANGED <<frame, currentMenuLevel, navigationStack, searchVars>>

\* faulty variant of the menu: "Show all results" is always offered
ResultsChoicesWithShowAll(filtered) ==
    {"search_results", "sort_results", "show_all", "back"}

\* the entries of the results prompt below the items
ResultsChoices(filtered) ==
    {"search_results", "sort_results", "back"}
    \cup (IF filtered THEN {"show_all"} ELSE {})

\* faulty variant of "Show all results": the full sequence is displayed
\* again but the filter flag stays set
ShowAllKeepingFlag ==
    /\ At("results_list")
    /\ "show_all" \in ResultsChoices(isFiltered)
    /\ lastEvent' = Event("results_list", "show_all")
    /\ currentResults' = results
    /\ UNCHANGED <<frame, pc, currentMenuLevel, navigationStack, category, query, results,
                   isFiltered, matchedTerm, selected>>

\* results prompt: "Show all results", offered while the display is filtered
ShowAll ==
    /\ At("results_list")
    /\ "show_all" \in ResultsChoices(isFiltered)
    /\ lastEvent' = Event("results_list", "show_all")
    /\ currentResults' = results
    /\ isFiltered' = FALSE
    /\ matchedTerm' = NoTerm
    /\ UNCHANGED <<frame, pc, currentMenuLevel, navigationStack, category, query, results,
                   selected>>

\* navigationStack.pop() when the stack is not empty
Pop(stack) == IF Len(stack) > 0 THEN SubSeq(stack, 1, Len(stack) - 1) ELSE stack

\* results prompt: "Back to search": the results loop is left, one entry is
\* popped, the menu loop starts over
BackToSearch ==
    /\ At("results_list")
    /\ lastEvent' = Event("results_list", "back")
    /\ navigationStack' = Pop(navigationStack)
    /\ ToMainMenu
    /\ UNCHANGED frame

\* faulty variant of the pushed entry: the displayed sequence is stored
StateOfDisplay(full, displayed) == [type |-> "results", data |-> displayed]

\* { type: 'results', data: results }
StateToPush(full, displayed) == [type |-> "results", data |-> full]

\* results prompt: an item is chosen; the full result sequence is pushed
\* and the detail loop entered
SelectItem ==
    /\ At("results_list")
    /\ Len(navigationStack) < MaxStack
    /\ \E i \in 1..Len(currentResults) :
         /\ lastEvent' = Event("results_list", "item")
         /\ selected' = <<currentResults[i]>>
    /\ navigationStack' = Append(navigationStack, StateToPush(results, currentResults))
    /\ currentMenuLevel' = "details"
    /\ pc' = "item_detail"
    /\ UNCHANGED <<frame, category, query, results, currentResults, isFiltered, matchedTerm>>

\* faulty variant of actionChoices: the external client is offered for
\* items with a magnet URL only
ActionChoicesMagnetOnly(item, qbUrl) ==
    (IF item.downloadUrl # "" THEN {"download_url"} ELSE {})
    \cup (IF item.magnetUrl # "" THEN {"magnet_url"} ELSE {})
    \cup (IF item.magnetUrl # "" /\ qbUrl # "" THEN {"open_qbittorrent"} ELSE {})
    \cup {"more_info", "back", "main_menu"}

\* actionChoices: the actions offered for an item
ActionChoices(item, qbUrl) ==
    (IF item.downloadUrl # "" THEN {"download_url"} ELSE {})
    \cup (IF item.magnetUrl # "" THEN {"magnet_url"} ELSE {})
    \cup (IF item.magnetUrl # ""
          THEN (IF qbUrl # "" THEN {"open_qbittorrent"} ELSE {})
          ELSE IF item.downloadUrl # "" /\ item.protocol = protocols.torrent /\ qbUrl # ""
               THEN {"open_qbittorrent"} ELSE {})
    \cup {"more_info", "back", "main_menu"}

\* detail prompt: an URL is shown or the extended details are, each
\* followed by "Press Enter to go back..."
ShowInfo ==
    /\ At("item_detail")
    /\ \E action \in ActionChoices(selected[1], qbittorrentUrl)
                      \cap {"download_url", "magnet_url", "more_info"} :
         lastEvent' = Event("item_detail", action)
    /\ pc' = "detail_ack"
    /\ UNCHANGED <<frame, currentMenuLevel, navigationStack, searchVars>>

\* this.downloadClient: downloadToClient reads it, nothing assigns it, so it
\* is undefined
downloadClient == <<>>

\* downloadToClient up to its first await: without a download client the
\* failure is reported and the detail loop starts over, otherwise the
\* release is posted to the gateway
DownloadToClient(item) ==
    IF downloadClient = <<>> THEN "item_detail" ELSE "release_request"

\* openInQBittorrent up to its first await: without a qBittorrent URL or
\* without an URL of the item the failure is reported and the detail loop
\* starts over, otherwise the URL is posted to qBittorrent
OpenInQBittorrent(item) ==
    IF qbittorrentUrl = "" THEN "item_detail"
    ELSE IF item.magnetUrl = "" /\ item.downloadUrl = "" THEN "item_detail"
    ELSE "qbittorrent_request"

\* detail prompt: the item is sent on: "download_client" calls
\* downloadToClient, "open_qbittorrent" calls openInQBittorrent
SendItem ==
    /\ At("item_detail")
    /\ \E action \in ActionChoices(selected[1], qbittorrentUrl)
                      \cap {"download_client", "open_qbittorrent"} :
         /\ lastEvent' = Event("item_detail", action)
         /\ pc' = IF action = "download_client" THEN DownloadToClient(selected[1])
                  ELSE OpenInQBittorrent(selected[1])
    /\ currentMenuLevel' = IF pc' = "item_detail" THEN "details" ELSE currentMenuLevel
    /\ UNCHANGED <<frame, navigationStack, searchVars>>

\* the requests downloadToClient and openInQBittorrent await
PostRequests == {"release_request", "qbittorrent_request"}

\* faulty variant of the answer: a failed POST is not caught and reaches
\* the catch of initialize
PostResponseUncaught ==
    /\ pc \in PostRequests
    /\ exitStatus = <<>>
    /\ \/ /\ lastEvent' = Event(pc, "ok")
          /\ pc' = "detail_ack"
          /\ UNCHANGED exitStatus
       \/ /\ lastEvent' = Event(pc, "error")
          /\ Exit(1)
    /\ UNCHANGED <<sessionVars, configFile, saveFailed, savedConfig, settingName, lastError,
                   currentMenuLevel, navigationStack, searchVars>>

\* POST /api/v1/release or POST /api/v2/torrents/add answers; success and
\* failure are reported and followed by "Press Enter to go back..."
PostResponse ==
    /\ pc \in PostRequests
    /\ exitStatus = <<>>
    /\ \E ok \in BOOLEAN :
         lastEvent' = Event(pc, IF ok THEN "ok" ELSE "error")
    /\ pc' = "detail_ack"
    /\ UNCHANGED <<frame, currentMenuLevel, navigationStack, searchVars>>

\* Enter at "Press Enter to go back...": the detail loop starts over
DetailAck ==
    /\ At("detail_ack")
    /\ lastEvent' = Event("detail_ack", "")
    /\ currentMenuLevel' = "details"
    /\ pc' = "item_detail"
    /\ UNCHANGED <<frame, navigationStack, searchVars>>

\* faulty variant of "Back to results": the display is restored from the
\* entry pushed at the selection, which holds the full result sequence
DetailBackRestoring ==
    /\ At("item_detail")
    /\ lastEvent' = Event("item_detail", "back")
    /\ selected' = <<>>
    /\ pc' = "results_list"
    /\ currentResults' = navigationStack[Len(navigationStack)].data
    /\ isFiltered' = FALSE
    /\ UNCHANGED matchedTerm
    /\ UNCHANGED <<frame, currentMenuLevel, navigationStack, category, query, results>>

\* detail prompt: "Back to results": the detail loop ends and the results
\* prompt is shown again
DetailBack ==
    /\ At("item_detail")
    /\ lastEvent' = Event("item_detail", "back")
    /\ selected' = <<>>
    /\ pc' = "results_list"
    /\ UNCHANGED <<frame, currentMenuLevel, navigationStack, category, query, results,
                   currentResults, isFiltered, matchedTerm>>

\* detail prompt: "Back to main menu": the stack is cleared and break leaves
\* the detail loop, which is the innermost loop; the results prompt is
\* shown again
DetailMainMenu ==
    /\ At("item_detail")
    /\ lastEvent' = Event("item_detail", "main_menu")
    /\ navigationStack' = <<>>
    /\ selected' = <<>>
    /\ pc' = "results_list"
    /\ UNCHANGED <<frame, currentMenuLevel, category, query, results, currentResults,
                   isFiltered, matchedTerm>>

(***************************************************************************)
(* showSettingsMenu and the sub-menus.                                     *)
(***************************************************************************)
settingsFrame == <<exitStatus, currentMenuLevel, baseUrl, apiKeyHeader, qbittorrentUrl,
                   indexers, savedConfig, navigationStack, searchVars, lastError>>

\* settings prompt: "Back to Main Menu" returns to the menu loop
SettingsBack ==
    /\ At("settings_menu")
    /\ lastEvent' = Event("settings_menu", "back")
    /\ ToMainMenu
    /\ UNCHANGED <<exitStatus, sessionVars, configFile, saveFailed, savedConfig, navigationStack,
                   settingName, lastError>>

\* settings prompt: "Reset to Default Settings" asks for confirmation
SettingsReset ==
    /\ At("settings_menu")
    /\ lastEvent' = Event("settings_menu", "reset")
    /\ pc' = "reset_confirm"
    /\ UNCHANGED <<settingsFrame, theme, settings, configFile, saveFailed, settingName>>

\* faulty variant of the reset: theme and settings are the defaults again
\* in memory only, the config is not saved
ResetConfirmInMemory ==
    /\ At("reset_confirm")
    /\ \/ /\ lastEvent' = Event("reset_confirm", "yes")
          /\ theme' = DefaultTheme
          /\ settings' = DefaultSettings
       \/ /\ lastEvent' = Event("reset_confirm", "no")
          /\ UNCHANGED <<theme, settings>>
    /\ pc' = "settings_menu"
    /\ UNCHANGED <<settingsFrame, configFile, saveFailed, settingName>>

\* confirmation prompt: on yes theme and settings are the defaults again
\* and the config is saved
ResetConfirm ==
    /\ At("reset_confirm")
    /\ \/ /\ lastEvent' = Event("reset_confirm", "yes")
          /\ theme' = DefaultTheme
          /\ settings' = DefaultSettings
          /\ \E ok \in BOOLEAN :
                SaveConfig(ok, baseUrl, apiKeyHeader, qbittorrentUrl, DefaultTheme, DefaultSettings)
       \/ /\ lastEvent' = Event("reset_confirm", "no")
          /\ UNCHANGED <<theme, settings, configFile, saveFailed>>
    /\ pc' = "settings_menu"
    /\ UNCHANGED <<settingsFrame, settingName>>

\* settings prompt: "Search Preferences"
SettingsSearch ==
    /\ At("settings_menu")
    /\ lastEvent' = Event("settings_menu", "search")
    /\ pc' = "search_setting_select"
    /\ UNCHANGED <<settingsFrame, theme, settings, configFile, saveFailed, settingName>>

\* customizeSearchPreferences: the setting to change is chosen
SearchSettingSelect ==
    /\ At("search_setting_select")
    /\ \E searchSetting \in {"defaultSortOrder", "showAdultContent", "back"} :
         /\ lastEvent' = Event("search_setting_select", searchSetting)
         /\ IF searchSetting = "back"
            THEN pc' = "settings_menu" /\ UNCHANGED settingName
            ELSE pc' = "search_setting_value" /\ settingName' = searchSetting
    /\ UNCHANGED <<settingsFrame, theme, settings, configFile, saveFailed>>

\* customizeSearchPreferences: the value is given, the setting changed and
\* the config saved
SearchSettingValue ==
    /\ At("search_setting_value")
    /\ \E st \in IF settingName = "defaultSortOrder"
                  THEN {[settings EXCEPT !.defaultSortOrder = v] : v \in SortOrderInputs}
                  ELSE {[settings EXCEPT !.showAdultContent = v] : v \in BOOLEAN} :
         /\ settings' = st
         /\ \E ok \in BOOLEAN :
               SaveConfig(ok, baseUrl, apiKeyHeader, qbittorrentUrl, theme, st)
    /\ lastEvent' = Event("search_setting_value", settingName)
    /\ pc' = "settings_ack"
    /\ UNCHANGED <<settingsFrame, theme, settingName>>

\* Enter at "Press Enter to continue...": back in the settings loop
SettingsAck ==
    /\ At("settings_ack")
    /\ lastEvent' = Event("settings_ack", "")
    /\ pc' = "settings_menu"
    /\ settingName' = ""
    /\ UNCHANGED <<settingsFrame, theme, settings, configFile, saveFailed>>

\* settings prompt: "Connection Settings"
SettingsConnection ==
    /\ At("settings_menu")
    /\ lastEvent' = Event("settings_menu", "connection")
    /\ pc' = "connection_setting_select"
    /\ UNCHANGED <<settingsFrame, theme, settings, configFile, saveFailed, settingName>>

\* customizeConnectionSettings: the setting to change is chosen
ConnectionSettingSelect ==
    /\ At("connection_setting_select")
    /\ \E connectionSetting \in {"serverUrl", "apiKey", "qbittorrentUrl", "back"} :
         /\ lastEvent' = Event("connection_setting_select", connectionSetting)
         /\ IF connectionSetting = "back"
            THEN pc' = "settings_menu" /\ UNCHANGED settingName
            ELSE pc' = "connection_setting_value" /\ settingName' = connectionSetting
    /\ UNCHANGED <<settingsFrame, theme, settings, configFile, saveFailed>>

connectionFrame == <<exitStatus, currentMenuLevel, theme, settings, savedConfig,
                     navigationStack, searchVars, settingName, lastError>>

\* customizeConnectionSettings: the value is given.  A server URL or an API
\* key is put in place and the connection tested with it; a qBittorrent
\* URL is put in place and the config saved.
ConnectionSettingValue ==
    /\ At("connection_setting_value")
    /\ CASE settingName = "serverUrl" ->
              \E value \in ServerUrlInputs :
                 /\ lastEvent' = Event("connection_setting_value", value)
                 /\ baseUrl' = value
                 /\ pc' = "connection_status_request"
                 /\ UNCHANGED <<apiKeyHeader, qbittorrentUrl, configFile, saveFailed>>
         [] settingName = "apiKey" ->
              \E value \in ApiKeyInputs :
                 /\ lastEvent' = Event("connection_setting_value", value)
                 /\ apiKeyHeader' = value
                 /\ pc' = "connection_status_request"
                 /\ UNCHANGED <<baseUrl, qbittorrentUrl, configFile, saveFailed>>
         [] OTHER ->
              \E value \in QbittorrentUrlInputs, ok \in BOOLEAN :
                 /\ lastEvent' = Event("connection_setting_value", value)
                 /\ qbittorrentUrl' = value
                 /\ SaveConfig(ok, baseUrl, apiKeyHeader, value, theme, settings)
                 /\ pc' = "settings_ack"
                 /\ UNCHANGED <<baseUrl, apiKeyHeader>>
    /\ UNCHANGED <<connectionFrame, indexers>>

\* faulty variant of the connection test: a failed test drops the indexers
\* of the connection that worked
ConnectionStatusResponseDroppingIndexers ==
    /\ At("connection_status_request")
    /\ \/ /\ lastEvent' = Event("connection_status_request", "ok")
          /\ pc' = "connection_indexer_request"
          /\ UNCHANGED <<configFile, saveFailed, indexers>>
       \/ /\ lastEvent' = Event("connection_status_request", "error")
          /\ \E ok \in BOOLEAN :
                SaveConfig(ok, baseUrl, apiKeyHeader, qbittorrentUrl, theme, settings)
          /\ indexers' = <<>>
          /\ pc' = "settings_ack"
    /\ UNCHANGED <<connectionFrame, baseUrl, apiKeyHeader, qbittorrentUrl>>

\* customizeConnectionSettings: GET /api/v1/system/status answers; a failure
\* is caught and reported, and the config is saved
ConnectionStatusResponse ==
    /\ At("connection_status_request")
    /\ \/ /\ lastEvent' = Event("connection_status_request", "ok")
          /\ pc' = "connection_indexer_request"
          /\ UNCHANGED <<configFile, saveFailed>>
       \/ /\ lastEvent' = Event("connection_status_request", "error")
          /\ \E ok \in BOOLEAN :
                SaveConfig(ok, baseUrl, apiKeyHeader, qbittorrentUrl, theme, settings)
          /\ pc' = "settings_ack"
    /\ UNCHANGED <<connectionFrame, baseUrl, apiKeyHeader, qbittorrentUrl, indexers>>

\* customizeConnectionSettings: GET /api/v1/indexer answers; the indexers
\* are replaced on success, a failure is caught and reported, and the
\* config is saved
ConnectionIndexerResponse ==
    /\ At("connection_indexer_request")
    /\ \/ \E list \in IndexerLists :
            /\ lastEvent' = Event("connection_indexer_request", "ok")
            /\ indexers' = list
       \/ /\ lastEvent' = Event("connection_indexer_request", "error")
          /\ UNCHANGED indexers
    /\ \E ok \in BOOLEAN :
          SaveConfig(ok, baseUrl, apiKeyHeader, qbittorrentUrl, theme, settings)
    /\ pc' = "settings_ack"
    /\ UNCHANGED <<connectionFrame, baseUrl, apiKeyHeader, qbittorrentUrl>>

(***************************************************************************)
(* The SIGINT handler the constructor installs.  It exits at menu level    *)
(* main and sets the level to main otherwise; it does nothing to the       *)
(* prompt or request the controller awaits.                                *)
(***************************************************************************)
\* faulty variant of the handler: the level is reset, the process never ends
SIGINTWithoutExit ==
    /\ exitStatus = <<>>
    /\ lastEvent' = Event("SIGINT", "")
    /\ currentMenuLevel' = "main"
    /\ UNCHANGED <<pc, exitStatus, sessionVars, configFile, saveFailed, savedConfig,
                   navigationStack,
                   searchVars, settingName, lastError>>

\* faulty variant of the handler: it goes back one level at a time, from
\* the details to the results and from there to main
SIGINTOneLevelBack ==
    /\ exitStatus = <<>>
    /\ lastEvent' = Event("SIGINT", "")
    /\ IF currentMenuLevel = "main"
       THEN Exit(0) /\ UNCHANGED currentMenuLevel
       ELSE /\ currentMenuLevel' = IF currentMenuLevel = "details" THEN "results" ELSE "main"
            /\ UNCHANGED <<pc, exitStatus>>
    /\ UNCHANGED <<sessionVars, configFile, saveFailed, savedConfig, navigationStack, searchVars,
                   settingName, lastError>>

\* process.on('SIGINT', ...)
SIGINT ==
    /\ exitStatus = <<>>
    /\ lastEvent' = Event("SIGINT", "")
    /\ IF currentMenuLevel = "main"
       THEN Exit(0) /\ UNCHANGED currentMenuLevel
       ELSE currentMenuLevel' = "main" /\ UNCHANGED <<pc, exitStatus>>
    /\ UNCHANGED <<sessionVars, configFile, saveFailed, savedConfig, navigationStack, searchVars,
                   settingName, lastError>>

Next ==
    \/ LoadConfig \/ EnterServerUrl \/ EnterApiKey \/ StatusResponse \/ IndexerResponse
    \/ MainMenu \/ CategorySelect \/ QueryInput \/ SearchResponse \/ SearchErrorAck
    \/ ChooseSortResults \/ SortResults \/ ChooseSearchResults \/ SearchResults
    \/ NoMatchAck \/ ShowAll \/ BackToSearch \/ SelectItem
    \/ ShowInfo \/ SendItem \/ PostResponse \/ DetailAck
    \/ DetailBack \/ DetailMainMenu
    \/ SettingsBack \/ SettingsReset \/ ResetConfirm \/ SettingsSearch
    \/ SearchSettingSelect \/ SearchSettingValue \/ SettingsAck
    \/ SIGINT

Spec == Init /\ [][Next]_vars

(***************************************************************************)
(* One results session with richer result sequences: it starts where the   *)
(* search request of a query is pending, and runs the results loop and the *)
(* detail loop until the session is left.                                  *)
(***************************************************************************)
\* the sessions a results session is run in: with and without an external
\* client, each with another default sort order
ResultsSessions ==
    {[qbittorrentUrl |-> "http://qbt", defaultSortOrder |-> "seeders_desc"],
     [qbittorrentUrl |-> "", defaultSortOrder |-> "title_asc"]}

ResultsInit ==
    /\ pc = "search_request"
    /\ exitStatus = <<>>
    /\ currentMenuLevel = "main"
    /\ baseUrl = "http://prowlarr"
    /\ apiKeyHeader = "key"
    /\ \E profile \in ResultsSessions :
         /\ qbittorrentUrl = profile.qbittorrentUrl
         /\ settings = [DefaultSettings EXCEPT !.defaultSortOrder = profile.defaultSortOrder]
    /\ indexers \in IndexerLists
    /\ theme = DefaultTheme
    /\ configFile = JsonFile(ConfigData(baseUrl, apiKeyHeader, qbittorrentUrl,
                                        <<theme>>, <<settings>>))
    /\ saveFailed = FALSE
    /\ savedConfig = NoData
    /\ navigationStack = <<>>
    /\ category = "all"
    /\ query = <<"a">>
    /\ results = <<>>
    /\ currentResults = <<>>
    /\ isFiltered = FALSE
    /\ matchedTerm = NoTerm
    /\ selected = <<>>
    /\ settingName = ""
    /\ lastError = <<>>
    /\ lastEvent = Event("query_input", <<"a">>)

\* the search of a results session: the gateway's catalog is the large one
ResultsSearchResponse == SearchResponseFrom(Catalog, MaxSortLen)

ResultsNext ==
    \/ ResultsSearchResponse \/ SearchErrorAck
    \/ ChooseSortResults \/ SortResults \/ ChooseSearchResults \/ SearchResults
    \/ NoMatchAck \/ ShowAll \/ BackToSearch \/ SelectItem
    \/ ShowInfo \/ SendItem \/ PostResponse \/ DetailAck
    \/ DetailBack \/ DetailMainMenu

ResultsSpec == ResultsInit /\ [][ResultsNext]_vars

(***************************************************************************)
(* The settings menu of a session, and the processes that follow it: the   *)
(* session is at the settings prompt, with the config file initialize has  *)
(* written for it; once the process has exited a new one is started, which *)
(* finds the config file the earlier one left.                             *)
(***************************************************************************)
SessionServerUrls == {"http://prowlarr", "http://prowlarr.old"}
SessionApiKeys == {"key", "old key"}
SessionThemes == {DefaultTheme, [primary |-> "red", highlight |-> "magenta"]}
SessionSettings ==
    {[defaultSortOrder |-> o, showAdultContent |-> a] : o \in SortOrderInputs, a \in BOOLEAN}

SettingsInit ==
    /\ pc = "settings_menu"
    /\ exitStatus = <<>>
    /\ currentMenuLevel = "settings"
    /\ baseUrl \in SessionServerUrls
    /\ apiKeyHeader \in SessionApiKeys
    /\ qbittorrentUrl \in QbittorrentUrlInputs
    /\ indexers \in IndexerLists
    /\ theme \in SessionThemes
    /\ settings \in SessionSettings
    /\ configFile = JsonFile(ConfigData(baseUrl, apiKeyHeader, qbittorrentUrl,
                                        <<theme>>, <<settings>>))
    /\ saveFailed = FALSE
    /\ savedConfig = NoData
    /\ navigationStack = <<>>
    /\ category = ""
    /\ query = <<>>
    /\ results = <<>>
    /\ currentResults = <<>>
    /\ isFiltered = FALSE
    /\ matchedTerm = NoTerm
    /\ selected = <<>>
    /\ settingName = ""
    /\ lastError = <<>>
    /\ lastEvent = Event("main_menu", "settings")

\* node index.js once more: a new process, constructed as the first was,
\* with the config file as the last process left it
NewProcess ==
    /\ exitStatus # <<>>
    /\ pc' = "start"
    /\ exitStatus' = <<>>
    /\ currentMenuLevel' = "main"
    /\ baseUrl' = ""
    /\ apiKeyHeader' = ""
    /\ qbittorrentUrl' = ""
    /\ indexers' = <<>>
    /\ theme' = DefaultTheme
    /\ settings' = DefaultSettings
    /\ savedConfig' = NoData
    /\ navigationStack' = <<>>
    /\ category' = ""
    /\ query' = <<>>
    /\ results' = <<>>
    /\ currentResults' = <<>>
    /\ isFiltered' = FALSE
    /\ matchedTerm' = NoTerm
    /\ selected' = <<>>
    /\ settingName' = ""
    /\ lastError' = <<>>
    /\ lastEvent' = Event("none", "")
    /\ saveFailed' = FALSE
    /\ UNCHANGED configFile

SettingsNext ==
    \/ SettingsBack \/ SettingsReset \/ ResetConfirm \/ SettingsSearch
    \/ SearchSettingSelect \/ SearchSettingValue \/ SettingsAck
    \/ SettingsConnection \/ ConnectionSettingSelect \/ ConnectionSettingValue
    \/ ConnectionStatusResponse \/ ConnectionIndexerResponse
    \/ MainMenu \/ NewProcess \/ LoadConfig \/ StatusResponse \/ IndexerResponse

SettingsSpec == SettingsInit /\ [][SettingsNext]_vars

(***************************************************************************)
(* Properties.                                                             *)
(***************************************************************************)
\* number of occurrences of x in s
Count(s, x) == Cardinality({i \in 1..Len(s) : s[i] = x})

\* every element of s occurs in t at least as often as in s
IsSubBag(s, t) == \A i \in 1..Len(s) : Count(s, s[i]) <= Count(t, s[i])

IsPermutation(s, t) == Len(s) = Len(t) /\ IsSubBag(s, t) /\ IsSubBag(t, s)

\* no two elements of s are out of order under the comparison of the key
Ordered(sortBy, s) ==
    \A i, j \in 1..Len(s) : i < j => SortCompare(sortBy, indexers, s[i], s[j]) <= 0

SessionStates == {"results_list", "sort_prompt", "filter_prompt", "no_match_ack",
                  "item_detail", "detail_ack", "qbittorrent_request", "release_request"}

NonMainStates == {"category_select", "query_input", "results_list", "item_detail",
                  "settings_menu", "reset_confirm", "search_setting_select",
                  "search_setting_value", "settings_ack"}

\* the step consumes the answer value to the prompt the controller awaits at p
Answers(p, value) ==
    /\ At(p)
    /\ lastEvent'.source = p
    /\ lastEvent'.value = value

\* C1: choosing "Back to main menu" in item_detail empties the navigation
\* stack and the controller then awaits the main menu prompt.
C1_BackToMainMenu ==
    [][Answers("item_detail", "main_menu")
         => (navigationStack' = <<>> /\ pc' = "main_menu")]_vars

\* C2: choosing "Back to results" in item_detail removes the entry pushed
\* when the item was selected and the controller awaits the results prompt.
C2_BackPops ==
    [][Answers("item_detail", "back")
         => /\ pc' = "results_list"
            /\ navigationStack' = SubSeq(navigationStack, 1, Len(navigationStack) - 1)]_vars

\* C3: selecting an item at the results prompt pushes exactly one entry, the
\* entry holds the full result sequence of the search, and the controller
\* enters item_detail.
C3_SelectPushesFullResults ==
    [][Answers("results_list", "item")
         => /\ Len(navigationStack') = Len(navigationStack) + 1
            /\ SubSeq(navigationStack', 1, Len(navigationStack)) = navigationStack
            /\ navigationStack'[Len(navigationStack')].data = results
            /\ pc' = "item_detail"]_vars

\* an item was selected while the display was sorted or filtered
C3_Witness ==
    /\ pc = "item_detail"
    /\ lastEvent.source = "results_list"
    /\ currentResults # results
    /\ navigationStack[Len(navigationStack)].data = results

\* C4: throughout a results session the displayed sequence holds only
\* elements of the full result sequence, none more often than it does, and
\* the full result sequence stays as the gateway returned it.
C4_DisplayedWithinResults ==
    /\ [](pc \in SessionStates => IsSubBag(currentResults, results))
    /\ [][(pc \in SessionStates /\ pc' \in SessionStates) => results' = results]_vars

\* back at the results prompt, from the detail view, with a filtered display
C4_Witness ==
    /\ pc = "results_list"
    /\ lastEvent.source = "item_detail"
    /\ isFiltered
    /\ Len(currentResults) < Len(results)

\* C5 as stated: whatever term is entered at the filter prompt, a non-empty
\* match set of the full result sequence becomes the displayed sequence.
C5_EveryTermFilters ==
    [][(At("filter_prompt") /\ lastEvent'.source = "filter_prompt")
         => LET matches == MatchSet(results, lastEvent'.value)
            IN  matches # <<>> => (currentResults' = matches /\ isFiltered')]_vars

\* C5 amended: a term that is not blank filters the full result sequence,
\* whatever is displayed, and a non-empty match set becomes the displayed
\* sequence; a blank term leaves display and filter flag as they are.
C5_NonBlankTermFilters ==
    [][(At("filter_prompt") /\ lastEvent'.source = "filter_prompt")
         => LET matches == MatchSet(results, lastEvent'.value)
            IN  IF IsBlank(lastEvent'.value)
                THEN currentResults' = currentResults /\ isFiltered' = isFiltered
                ELSE matches # <<>> => (currentResults' = matches /\ isFiltered')]_vars

\* a filter has replaced the display by a proper part of the results
C5_Witness ==
    /\ pc = "results_list"
    /\ lastEvent.source = "filter_prompt"
    /\ ~IsBlank(lastEvent.value)
    /\ currentResults = MatchSet(results, lastEvent.value)
    /\ Len(currentResults) < Len(results)

\* C6: a SIGINT in a state other than the main menu does not end the
\* process, makes the main menu the prompt awaited and leaves theme and
\* settings alone.
C6_InterruptResetsToMainMenu ==
    [][(exitStatus = <<>> /\ pc \in NonMainStates /\ lastEvent'.source = "SIGINT")
         => /\ exitStatus' = <<>>
            /\ pc' = "main_menu"
            /\ settings' = settings
            /\ theme' = theme]_vars

\* C7: a SIGINT while the main menu prompt is awaited, and the choice
\* "Exit" at the main menu, end the process with status 0.
C7_ExitAtMainMenu ==
    [][(At("main_menu")
          /\ \/ lastEvent'.source = "SIGINT"
             \/ (lastEvent'.source = "main_menu" /\ lastEvent'.value = "exit"))
         => exitStatus' = <<0>>]_vars

\* the process was interrupted at the main menu and has exited
C7_Witness ==
    /\ pc = "main_menu"
    /\ lastEvent.source = "SIGINT"
    /\ exitStatus = <<0>>

C9_SortOrdersDisplay ==
    [][(At("sort_prompt") /\ lastEvent'.source = "sort_prompt")
         => /\ IsPermutation(currentResults', currentResults)
            /\ Ordered(lastEvent'.value, currentResults')
            /\ results' = results]_vars

IdempotentKeys == {"title_asc", "title_desc", "seeders_desc", "seeders_asc",
                   "size_desc", "size_asc", "date_desc", "date_asc"}

\* C10: after sorting by one of the title, seeders, size and date keys,
\* sorting the displayed sequence by the same key gives it back.
C10_SortIdempotent ==
    [][(At("sort_prompt") /\ lastEvent'.source = "sort_prompt"
          /\ lastEvent'.value \in IdempotentKeys)
         => ArraySort(lastEvent'.value, indexers, currentResults') = currentResults']_vars

\* a sort by one of these keys has reordered three results
C10_Witness ==
    /\ pc = "results_list"
    /\ lastEvent.source = "sort_prompt"
    /\ lastEvent.value \in IdempotentKeys
    /\ Len(currentResults) >= 3
    /\ currentResults # results

NumericKeys == {"seeders_desc", "seeders_asc", "size_desc", "size_asc"}

\* the result with 0 written for a missing seeders or size
ZeroFilled(r) ==
    [r EXCEPT !.seeders = IF r.seeders = <<>> THEN <<0>> ELSE r.seeders,
              !.size = IF r.size = <<>> THEN <<0>> ELSE r.size]

\* C11: a sort by a seeders or size key does not end the process or leave
\* the results loop, and it places every result where the same sort places
\* it once 0 is written for each missing seeders and size; seeders_desc on
\* seeders 5, missing, 20 gives 20, 5, missing.
C11_MissingNumbersSortAsZero ==
    [][(At("sort_prompt") /\ lastEvent'.source = "sort_prompt"
          /\ lastEvent'.value \in NumericKeys)
         => /\ exitStatus' = <<>>
            /\ pc' = "results_list"
            /\ [i \in 1..Len(currentResults') |-> ZeroFilled(currentResults'[i])]
                 = ArraySort(lastEvent'.value, indexers,
                             [i \in 1..Len(currentResults) |-> ZeroFilled(currentResults[i])])
            /\ (lastEvent'.value = "seeders_desc" /\ currentResults = <<R1, R2, R3>>)
                 => currentResults' = <<R3, R1, R2>>]_vars

\* seeders 5, missing, 20 have been sorted by seeders_desc
C11_Witness ==
    /\ pc = "results_list"
    /\ lastEvent = Event("sort_prompt", "seeders_desc")
    /\ results = <<R1, R2, R3>>
    /\ currentResults = <<R3, R1, R2>>

DateKeys == {"date_desc", "date_asc"}

\* the result with its publishDate removed when it cannot be parsed, so
\* that new Date(publishDate || 0) is the epoch
EpochFilled(r) == IF NewDate(r.publishDate).nan THEN [r EXCEPT !.publishDate = ""] ELSE r

\* C12: a sort by a date key places every result where the same sort places
\* it once each missing or unparseable publishDate is taken as epoch 0.
C12_UndatedSortAsEpoch ==
    [][(At("sort_prompt") /\ lastEvent'.source = "sort_prompt"
          /\ lastEvent'.value \in DateKeys)
         => [i \in 1..Len(currentResults') |-> EpochFilled(currentResults'[i])]
              = ArraySort(lastEvent'.value, indexers,
                          [i \in 1..Len(currentResults) |-> EpochFilled(currentResults[i])])]_vars

\* C13 as stated: whatever term matches no title of the full result
\* sequence, no error is raised, the user is told so, the controller is
\* back at the results prompt after that, and the displayed sequence and
\* the filter flag are what they were.
C13_NoMatchInforms ==
    [][/\ (At("filter_prompt") /\ lastEvent'.source = "filter_prompt"
             /\ MatchSet(results, lastEvent'.value) = <<>>)
            => /\ exitStatus' = <<>>
               /\ lastError' = <<>>
               /\ pc' = "no_match_ack"
               /\ currentResults' = currentResults
               /\ isFiltered' = isFiltered
       /\ (At("no_match_ack") /\ lastEvent'.source = "no_match_ack")
            => /\ pc' = "results_list"
               /\ currentResults' = currentResults
               /\ isFiltered' = isFiltered]_vars

\* C13 amended: a term that is not blank and matches no title raises no
\* error, the user is told so, and after the acknowledgement the controller
\* is at the results prompt with the displayed sequence and the filter flag
\* as they were; a blank term without match is ignored without a message.
C13_NonBlankNoMatchInforms ==
    [][/\ (At("filter_prompt") /\ lastEvent'.source = "filter_prompt"
             /\ MatchSet(results, lastEvent'.value) = <<>>)
            => /\ exitStatus' = <<>>
               /\ lastError' = <<>>
               /\ pc' = IF IsBlank(lastEvent'.value) THEN "results_list" ELSE "no_match_ack"
               /\ currentResults' = currentResults
               /\ isFiltered' = isFiltered
       /\ (At("no_match_ack") /\ lastEvent'.source = "no_match_ack")
            => /\ pc' = "results_list"
               /\ currentResults' = currentResults
               /\ isFiltered' = isFiltered]_vars

\* a second filter on a filtered display found nothing and was acknowledged
C13_Witness ==
    /\ pc = "results_list"
    /\ lastEvent.source = "no_match_ack"
    /\ isFiltered
    /\ currentResults # results

\* C14: "Show all results" makes the full result sequence, in its order,
\* the displayed sequence and clears the filter flag; the results prompt
\* offers it exactly when the filter flag is set.
C14_ShowAllResets ==
    /\ [][Answers("results_list", "show_all")
            => /\ isFiltered
               /\ currentResults' = results
               /\ results' = results
               /\ ~isFiltered'
               /\ pc' = "results_list"]_vars
    /\ [](pc = "results_list" => ("show_all" \in ResultsChoices(isFiltered) <=> isFiltered))

\* "Show all results" has brought back a display of several results
C14_Witness ==
    /\ pc = "results_list"
    /\ lastEvent = Event("results_list", "show_all")
    /\ ~isFiltered
    /\ currentResults = results
    /\ Len(results) >= 2

\* C15: whenever the detail prompt is shown, "send to download client" is
\* among the actions it offers (choosing it posts the release to the
\* gateway).
C15_DownloadClientOffered ==
    (pc = "item_detail" /\ exitStatus = <<>>)
        => "download_client" \in ActionChoices(selected[1], qbittorrentUrl)

\* C16: when a POST issued from the detail view fails, the process goes
\* on, the failure is reported, and after the acknowledgement the detail
\* prompt is shown again for the same item; stack and displayed sequence
\* are untouched throughout.
C16_FailedPostReturnsToDetail ==
    [][/\ (pc \in PostRequests /\ exitStatus = <<>> /\ lastEvent'.source = pc
             /\ lastEvent'.value = "error")
            => /\ exitStatus' = <<>>
               /\ pc' = "detail_ack"
               /\ navigationStack' = navigationStack
               /\ currentResults' = currentResults
               /\ selected' = selected
       /\ (At("detail_ack") /\ lastEvent'.source = "detail_ack")
            => /\ exitStatus' = <<>>
               /\ pc' = "item_detail"
               /\ navigationStack' = navigationStack
               /\ currentResults' = currentResults
               /\ selected' = selected]_vars

\* the POST to qBittorrent has failed and the failure is being reported
C16_Witness ==
    /\ pc = "detail_ack"
    /\ lastEvent = Event("qbittorrent_request", "error")
    /\ exitStatus = <<>>
    /\ navigationStack # <<>>
    /\ selected # <<>>

StartupStates == {"start", "server_url_prompt", "api_key_prompt", "status_request",
                  "indexer_request"}

\* C17: a failed status request of initialize ends the process with status
\* 1, and an ended process shows nothing more; the indexers are requested
\* only once the status request has succeeded, and the main menu is first
\* shown only once the indexer request has succeeded.
C17_ConnectionFailureExits ==
    [][/\ Answers("status_request", "error") => exitStatus' = <<1>>
       /\ exitStatus # <<>> => (pc' = pc /\ exitStatus' = exitStatus)
       /\ (pc' = "indexer_request" /\ pc # "indexer_request")
            => Answers("status_request", "ok")
       /\ (pc' = "main_menu" /\ pc \in StartupStates)
            => Answers("indexer_request", "ok")]_vars

\* the status request has failed and the process has exited with status 1
C17_Witness ==
    /\ pc = "status_request"
    /\ lastEvent = Event("status_request", "error")
    /\ exitStatus = <<1>>

\* C20: loadConfig on a config file that is absent or not parseable does
\* not end the process; it returns empty server URL and API key with the
\* default theme and settings, theme and settings in memory stay the
\* defaults, and initialize goes on to ask for the server URL.
C20_UnreadableConfigGivesDefaults ==
    [][(At("start") /\ lastEvent'.source = "start" /\ configFile.kind # "json")
         => /\ exitStatus' = <<>>
            /\ savedConfig' = ConfigData("", "", "", <<DefaultTheme>>, <<DefaultSettings>>)
            /\ theme' = DefaultTheme
            /\ settings' = DefaultSettings
            /\ pc' = "server_url_prompt"]_vars

\* a config file that is not parseable was loaded and the server URL is
\* asked for
C20_Witness ==
    /\ pc = "server_url_prompt"
    /\ lastEvent.source = "start"
    /\ configFile.kind = "corrupt"
    /\ savedConfig.serverUrl = ""
    /\ theme = DefaultTheme
    /\ exitStatus = <<>>

\* the step enters a new value for the connection setting name
EntersConnectionValue(name) ==
    /\ At("connection_setting_value")
    /\ settingName = name
    /\ lastEvent'.source = "connection_setting_value"

\* the step is the failure of a request of the connection test
ConnectionTestFails ==
    /\ pc \in {"connection_status_request", "connection_indexer_request"}
    /\ exitStatus = <<>>
    /\ lastEvent'.source = pc
    /\ lastEvent'.value = "error"

\* C18 as stated: entering a new server URL or API key changes nothing of
\* the session before the connection test is through, and when the test
\* fails, server URL, API key and indexers, in memory and in the config
\* file, are what they were.
C18_FailedTestRestores ==
    [][/\ (EntersConnectionValue("serverUrl") \/ EntersConnectionValue("apiKey"))
            => /\ baseUrl' = baseUrl
               /\ apiKeyHeader' = apiKeyHeader
               /\ indexers' = indexers
               /\ configFile' = configFile
       /\ ConnectionTestFails
            => /\ baseUrl' = baseUrl
               /\ apiKeyHeader' = apiKeyHeader
               /\ indexers' = indexers
               /\ configFile' = configFile]_vars

\* C18 amended: the new server URL or API key is put in place before the
\* connection test; when the test fails the process goes on, the indexers
\* are what they were, the new value stays in memory, and the config is
\* saved with it (the file stays as it was only if the write fails).
C18_FailedTestKeepsIndexers ==
    [][/\ EntersConnectionValue("serverUrl")
            => /\ baseUrl' = lastEvent'.value
               /\ apiKeyHeader' = apiKeyHeader
               /\ indexers' = indexers
               /\ configFile' = configFile
       /\ EntersConnectionValue("apiKey")
            => /\ apiKeyHeader' = lastEvent'.value
               /\ baseUrl' = baseUrl
               /\ indexers' = indexers
               /\ configFile' = configFile
       /\ ConnectionTestFails
            => /\ exitStatus' = <<>>
               /\ pc' = "settings_ack"
               /\ baseUrl' = baseUrl
               /\ apiKeyHeader' = apiKeyHeader
               /\ indexers' = indexers
               /\ configFile' \in {configFile,
                                    JsonFile(ConfigData(baseUrl, apiKeyHeader, qbittorrentUrl,
                                                        <<theme>>, <<settings>>))}]_vars

\* the test of a new server URL has failed; the URL is in memory and in
\* the config file, the indexers of the old connection are still there
C18_Witness ==
    /\ pc = "settings_ack"
    /\ lastEvent = Event("connection_status_request", "error")
    /\ settingName = "serverUrl"
    /\ baseUrl = "http://prowlarr"
    /\ configFile.data.serverUrl = baseUrl
    /\ indexers # <<>>

\* loadConfig by a new process on file gives back the five values
RoundTrips(file, serverUrl, apiKey, qbUrl, th, st) ==
    LET loadedTheme == Merge(DefaultTheme, file.data.theme)
        loadedSettings == Merge(DefaultSettings, file.data.settings)
        config == LoadConfigResult(file, loadedTheme, loadedSettings)
    IN  /\ file.kind = "json"
        /\ config.serverUrl = serverUrl
        /\ config.apiKey = apiKey
        /\ config.qbittorrentUrl = qbUrl
        /\ config.theme = <<th>>
        /\ config.settings = <<st>>
        /\ loadedTheme = th
        /\ loadedSettings = st

\* C19: whenever saveConfig has written the config file, loadConfig by a
\* new process gives back server URL, API key, qBittorrent URL, theme and
\* settings as they were in memory at the write; and a new process that
\* loads the file has them in memory as the file holds them.
C19_ConfigRoundTrip ==
    [][/\ configFile' # configFile
            => RoundTrips(configFile', baseUrl', apiKeyHeader', qbittorrentUrl', theme',
                          settings')
       /\ (At("start") /\ lastEvent'.source = "start")
            => /\ baseUrl' = configFile.data.serverUrl
               /\ apiKeyHeader' = configFile.data.apiKey
               /\ qbittorrentUrl' = configFile.data.qbittorrentUrl
               /\ <<theme'>> = configFile.data.theme
               /\ <<settings'>> = configFile.data.settings]_vars

\* a new process has loaded a theme and settings that are not the defaults
C19_Witness ==
    /\ pc = "status_request"
    /\ lastEvent.source = "start"
    /\ theme # DefaultTheme
    /\ settings # DefaultSettings
    /\ baseUrl = "http://prowlarr.old"
    /\ qbittorrentUrl = "http://qbt"

\* C23: whenever the controller awaits the main menu prompt the navigation
\* stack is empty, so its depth does not grow from one search to the next.
C23_StackEmptyAtMainMenu == At("main_menu") => navigationStack = <<>>

\* C26: whenever the results prompt is awaited the displayed sequence is not
\* empty: a search that succeeds either shows a non-empty sequence or, with
\* no result, returns to the main menu, and a filter term without a match
\* leaves the displayed sequence as it is.
C26_DisplayedNeverEmpty ==
    /\ [](At("results_list") => currentResults # <<>>)
    /\ [][Answers("search_request", "ok")
            => \/ pc' = "results_list" /\ currentResults' # <<>>
               \/ pc' = "main_menu" /\ currentResults' = <<>>]_vars
    /\ [][(At("filter_prompt") /\ lastEvent'.source = "filter_prompt"
             /\ MatchSet(results, lastEvent'.value) = <<>>)
            => currentResults' = currentResults /\ isFiltered' = isFiltered]_vars

\* the main menu prompt after a search that found nothing
C26_Witness ==
    /\ At("main_menu")
    /\ lastEvent.source = "search_request"
    /\ lastEvent.value = "ok"

C22_ActionsFollowFields ==
    At("item_detail") =>
       LET item == selected[1]
           offered == ActionChoices(item, qbittorrentUrl)
       IN  /\ "download_url" \in offered <=> item.downloadUrl # ""
           /\ "magnet_url" \in offered <=> item.magnetUrl # ""
           /\ "open_qbittorrent" \in offered
                <=> /\ qbittorrentUrl # ""
                    /\ \/ item.magnetUrl # ""
                       \/ item.downloadUrl # "" /\ item.protocol = "torrent"
           /\ {"more_info", "back", "main_menu"} \subseteq offered
           /\ offered \subseteq {"download_url", "magnet_url", "open_qbittorrent",
                                 "more_info", "back", "main_menu"}

\* the detail prompt of a torrent that has a download URL only, with an
\* external client configured
C22_Witness ==
    /\ At("item_detail")
    /\ qbittorrentUrl # ""
    /\ selected[1].magnetUrl = ""
    /\ selected[1].downloadUrl # ""
    /\ selected[1].protocol = "torrent"

\* the states in which the controller awaits the answer to an HTTP request
RequestStates == {"status_request", "indexer_request", "search_request",
                  "qbittorrent_request", "release_request",
                  "connection_status_request", "connection_indexer_request"}

C29_BackAndExitAreNotSearched ==
    [][(At("query_input") /\ lastEvent'.source = "query_input")
         => LET q == lastEvent'.value
                word == ToLowerCase(q)
            IN  /\ word = <<"b", "a", "c", "k">>
                     => (pc' = "main_menu" /\ exitStatus' = <<>>)
                /\ word = <<"e", "x", "i", "t">>
                     => (exitStatus' = <<0>> /\ pc' # "search_request")
                /\ word \notin {<<"b", "a", "c", "k">>, <<"e", "x", "i", "t">>}
                     => (pc' = "search_request" /\ query' = q /\ exitStatus' = <<>>)]_vars

\* the main menu prompt after the query Back
C29_Witness ==
    /\ At("main_menu")
    /\ lastEvent.source = "query_input"
    /\ lastEvent.value = <<"B", "a", "c", "k">>

\* the states of the detail loop
DetailStates == {"item_detail", "detail_ack", "qbittorrent_request", "release_request"}

\* C25: "Back to results" returns to the results prompt with the displayed
\* sequence and the filter flag as they were when the item was selected:
\* the selection and every step of the detail loop, whatever action it
\* performs, leave both as they are, and back leads to the results prompt.
C25_BackKeepsDisplay ==
    /\ [][(Answers("results_list", "item") \/ (exitStatus = <<>> /\ pc \in DetailStates))
            => currentResults' = currentResults /\ isFiltered' = isFiltered]_vars
    /\ [][Answers("item_detail", "back")
            => pc' = "results_list" /\ exitStatus' = <<>>]_vars

\* back at the results prompt with the sorted display the item was
\* selected from
C25_Witness ==
    /\ At("results_list")
    /\ lastEvent.source = "item_detail"
    /\ lastEvent.value = "back"
    /\ ~isFiltered
    /\ currentResults # results

\* C28: the process ends with status 1 only in the step in which the status
\* request or the indexer request of initialize fails.
C28_ExitOneOnlyAtConnect ==
    [][(exitStatus = <<>> /\ exitStatus' = <<1>>)
         => \/ Answers("status_request", "error")
            \/ Answers("indexer_request", "error")]_vars

\* C24 as stated: at the results prompt the displayed sequence is a
\* permutation of the full result sequence while the filter flag is false,
\* and a permutation of the non-empty match set of the most recent filter
\* term that matched a title while it is true.
C24_FlagMatchesLastMatchingTerm ==
    At("results_list") =>
       IF isFiltered
       THEN /\ matchedTerm.any # <<>>
            /\ MatchSet(results, matchedTerm.any[1]) # <<>>
            /\ IsPermutation(currentResults, MatchSet(results, matchedTerm.any[1]))
       ELSE IsPermutation(currentResults, results)

\* C24 amended: at the results prompt the displayed sequence is a
\* permutation of the full result sequence while the filter flag is false,
\* and a permutation of the non-empty match set of the most recent filter
\* term that is not blank and matched a title while it is true.
C24_FlagMatchesLastNonBlankTerm ==
    At("results_list") =>
       IF isFiltered
       THEN /\ matchedTerm.nonBlank # <<>>
            /\ MatchSet(results, matchedTerm.nonBlank[1]) # <<>>
            /\ IsPermutation(currentResults, MatchSet(results, matchedTerm.nonBlank[1]))
       ELSE IsPermutation(currentResults, results)

\* the results prompt with a filtered display that was sorted, after a
\* blank term was entered at the filter prompt
C24_Witness ==
    /\ At("results_list")
    /\ isFiltered
    /\ matchedTerm.any # matchedTerm.nonBlank
    /\ currentResults # MatchSet(results, matchedTerm.nonBlank[1])

\* the config file that holds the session's server URL, API key, external
\* client URL, theme and settings
SessionConfig ==
    JsonFile(ConfigData(baseUrl, apiKeyHeader, qbittorrentUrl, <<theme>>, <<settings>>))

\* C21: after initialization, whenever the main menu prompt or the settings
\* prompt is awaited and no save of the config has failed, the config file
\* holds the server URL, API key, external client URL, theme and settings
\* of the session.
C21_ConfigPersisted ==
    ((At("main_menu") \/ At("settings_menu")) /\ ~saveFailed) => configFile = SessionConfig

\* the settings prompt after theme and settings were reset and saved
C21_Witness ==
    /\ At("settings_menu")
    /\ ~saveFailed
    /\ lastEvent.source = "reset_confirm"
    /\ lastEvent.value = "yes"
    /\ configFile = SessionConfig

====
